---- MODULE Spec2Model ----
(***************************************************************************)
(* A model of ntl::WmiService (FirewallEventMonitor/ntl/ntlWmiService.hpp): *)
(* a handle that owns a reference-counted IWbemLocator and IWbemServices,   *)
(* its constructor, copy constructor, copy assignment, destructor,          *)
(* comparison operators and delete_path.                                    *)
(*                                                                          *)
(* A handle lives in a slot (a C++ object); native objects are numbered and *)
(* carry a reference count.  Threads run one member function at a time and  *)
(* interleave between the native calls a member function makes.  Two        *)
(* threads never run a member function that writes a handle while another   *)
(* uses the same handle (the program is free of data races).                *)
(***************************************************************************)
EXTENDS Integers, Sequences, FiniteSets, TLC

\* ---------------------------------------------------------------- bounds
MaxHandles == 3
MaxLocators == 2
MaxServices == 2
\* CoInitializeEx nests without limit; the model stops a thread at this depth.
MaxCoInit == 4

Threads == {1, 2}
SeqThreads == {1}
Slots == 1..MaxHandles
LocIds == 1..MaxLocators
SvcIds == 1..MaxServices

\* The namespace paths and object paths callers pass, and the call contexts.
NsPaths == {"root\\cimv2", "root\\wmi"}
ObjPaths == {"Cls.Key='1'"}
Contexts == {0, 1}

\* The HRESULTs the native calls return: two failures, S_OK, S_FALSE.
HResults == {-2, -1, 0, 1}

\* ------------------------------------------------------- native helpers
Null == 0

FAILED(hr) == hr < 0

NoExc == [type |-> "none", code |-> 0, what |-> "", where |-> ""]

\* ntl::Exception / ntl::WmiException(hr, what, where, false)
Exc(type, hr, what, where) ==
    [type |-> type, code |-> hr, what |-> what, where |-> where]

NullHandle == [st |-> "none", loc |-> Null, svc |-> Null]

NoTok == [st |-> "none", hr |-> 0, status |-> 0]

Idle ==
    [kind |-> "idle", pc |-> "idle", dst |-> 0, src |-> 0, tmp |-> NullHandle,
     calls |-> <<>>, hr |-> 0, exc |-> NoExc, path |-> "", ctx |-> 0,
     tok |-> NoTok, eq |-> FALSE, neq |-> FALSE, via |-> ""]

VARIABLES
    handle,      \* slot -> [st, loc, svc]: the WmiService objects
    locRef,      \* locator id -> reference count (0: no such object)
    svcRef,      \* connection id -> reference count (0: closed / no such object)
    svcSecured,  \* connection id -> CoSetProxyBlanket succeeded on it
    svcPath,     \* connection id -> the namespace it is connected to
    coCount,     \* thread -> balance of CoInitializeEx / CoUninitialize
    op           \* thread -> the member function it is running

vars == <<handle, locRef, svcRef, svcSecured, svcPath, coCount, op>>

\* ntl::ComPtr<T>: copy takes a reference, destruction drops one, the object
\* is destroyed when the count reaches zero.
AddRef(refs, p) == IF p = Null THEN refs ELSE [refs EXCEPT ![p] = @ + 1]

Release(refs, p) == IF p = Null THEN refs ELSE [refs EXCEPT ![p] = @ - 1]

\* operator== of ntl::ComPtr: the same native object.
ComPtrEq(p, q) == p = q

\* ntl::ComInitialize: CoInitializeEx at construction, CoUninitialize at
\* destruction, both on the thread that runs them.
\* The ComInitialize constructor throws when CoInitializeEx fails.
CoInitCheck(hr) ==
    IF FAILED(hr) THEN Exc("Exception", hr, "CoInitializeEx", "ComInitialize") ELSE NoExc

\* ComPtr<T>::createInstance throws when CoCreateInstance fails.
CreateInstanceCheck(hr) ==
    IF FAILED(hr) THEN Exc("Exception", hr, "CoCreateInstance", "ComPtr::createInstance") ELSE NoExc

CoInit(cnt, t) == [cnt EXCEPT ![t] = @ + 1]

CoUninit(cnt, t) == [cnt EXCEPT ![t] = IF @ > 0 THEN @ - 1 ELSE 0]

FreeLocs == {l \in LocIds : locRef[l] = 0}

FreeSvcs == {c \in SvcIds : svcRef[c] = 0}

Min(S) == CHOOSE x \in S : \A y \in S : x <= y

\* What is left of the connections' attributes once `refs` are the counts: a
\* connection whose count reached zero is closed and its proxy is gone.
SecuredAfter(refs) == [c \in SvcIds |-> IF refs[c] = 0 THEN FALSE ELSE svcSecured[c]]

PathAfter(refs) == [c \in SvcIds |-> IF refs[c] = 0 THEN "" ELSE svcPath[c]]

\* The members of handle value h are destroyed on thread t, in reverse order
\* of declaration: wbemServices, wbemLocator, coinit.
DestroyMembers(t, h) ==
    LET refs == Release(svcRef, h.svc)
    IN  /\ svcRef' = refs
        /\ svcSecured' = SecuredAfter(refs)
        /\ svcPath' = PathAfter(refs)
        /\ locRef' = Release(locRef, h.loc)
        /\ coCount' = CoUninit(coCount, t)

\* ----------------------------------------------------------- discipline
\* The slots a running member function writes and reads.
Writes(o) ==
    IF o.kind \in {"construct", "copy", "assign", "destroy"} THEN {o.dst} ELSE {}

Reads(o) ==
    IF o.kind \in {"copy", "assign", "compare"} THEN {o.src} \cup
        (IF o.kind = "compare" THEN {o.dst} ELSE {})
    ELSE IF o.kind \in {"delete", "get"} THEN {o.dst}
    ELSE {}

CanWrite(t, s) ==
    \A u \in Threads \ {t} : s \notin (Writes(op[u]) \cup Reads(op[u]))

CanRead(t, s) ==
    \A u \in Threads \ {t} : s \notin Writes(op[u])

\* ------------------------------------------------------------------ Init
Init ==
    /\ handle = [s \in Slots |-> NullHandle]
    /\ locRef = [l \in LocIds |-> 0]
    /\ svcRef = [c \in SvcIds |-> 0]
    /\ svcSecured = [c \in SvcIds |-> FALSE]
    /\ svcPath = [c \in SvcIds |-> ""]
    /\ coCount = [t \in Threads |-> 0]
    /\ op = [t \in Threads |-> Idle]

\* ------------------------------------------- WmiService(LPCWSTR), l.47-78
\* A constructor of a class without the coinit member.
CtorBeginNoInit(t, s, p, hr) ==
    /\ op[t].pc = "idle"
    /\ handle[s].st = "none"
    /\ CanWrite(t, s)
    /\ coCount[t] < MaxCoInit
    /\ op' = [op EXCEPT ![t] = [Idle EXCEPT
           !.kind = "construct", !.pc = "create", !.dst = s, !.path = p,
           !.calls = <<"CoInitializeEx">>, !.hr = 0]]
    /\ handle' = [handle EXCEPT ![s] = [st |-> "ctor", loc |-> Null, svc |-> Null]]
    /\ UNCHANGED <<locRef, svcRef, svcSecured, svcPath, coCount>>

\* The member initialisers: coinit() calls CoInitializeEx and throws when it
\* fails; wbemLocator and wbemServices start null.
CtorBegin(t, s, p, hr) ==
    /\ op[t].pc = "idle"
    /\ handle[s].st = "none"
    /\ CanWrite(t, s)
    /\ coCount[t] < MaxCoInit
    /\ IF CoInitCheck(hr) # NoExc
       THEN /\ op' = [op EXCEPT ![t] = [Idle EXCEPT
                   !.kind = "construct", !.pc = "thrown", !.dst = s, !.path = p,
                   !.calls = <<"CoInitializeEx">>, !.hr = hr,
                   !.exc = CoInitCheck(hr)]]
            /\ UNCHANGED <<handle, coCount>>
       ELSE /\ op' = [op EXCEPT ![t] = [Idle EXCEPT
                   !.kind = "construct", !.pc = "create", !.dst = s, !.path = p,
                   !.calls = <<"CoInitializeEx">>, !.hr = hr]]
            /\ handle' = [handle EXCEPT ![s] = [st |-> "ctor", loc |-> Null, svc |-> Null]]
            /\ coCount' = CoInit(coCount, t)
    /\ UNCHANGED <<locRef, svcRef, svcSecured, svcPath>>

\* An exception leaves the constructor body: the members are destroyed and no
\* object exists.
CtorThrow(t, hr, call, e) ==
    /\ DestroyMembers(t, handle[op[t].dst])
    /\ handle' = [handle EXCEPT ![op[t].dst] = NullHandle]
    /\ op' = [op EXCEPT ![t].pc = "thrown", ![t].exc = e, ![t].hr = hr,
                        ![t].calls = Append(@, call)]

\* l.49: ComPtr<IWbemLocator>::createInstance, which throws on failure.
CtorCreateLocator(t, hr) ==
    /\ op[t].kind = "construct"
    /\ op[t].pc = "create"
    /\ IF CreateInstanceCheck(hr) # NoExc
       THEN CtorThrow(t, hr, "CoCreateInstance", CreateInstanceCheck(hr))
       ELSE /\ FreeLocs # {}
            /\ LET l == Min(FreeLocs)
               IN  /\ locRef' = [locRef EXCEPT ![l] = 1]
                   /\ handle' = [handle EXCEPT ![op[t].dst].loc = l]
                   /\ op' = [op EXCEPT ![t].pc = "connect", ![t].hr = hr,
                                       ![t].tmp.loc = l,
                                       ![t].calls = Append(@, "CoCreateInstance")]
            /\ UNCHANGED <<svcRef, svcSecured, svcPath, coCount>>

\* A constructor that does not look at ConnectServer's result.
ConnectUnchecked(hr) == NoExc

\* l.61-63: the check of ConnectServer's result.
ConnectCheck(hr) ==
    IF FAILED(hr)
    THEN Exc("Exception", hr, "IWbemLocator::ConnectServer", "WmiService::connect")
    ELSE NoExc

\* l.51-63: ConnectServer fills wbemServices on success.
CtorConnect(t, hr) ==
    /\ op[t].kind = "construct"
    /\ op[t].pc = "connect"
    /\ IF ConnectCheck(hr) # NoExc
       THEN CtorThrow(t, hr, "IWbemLocator::ConnectServer", ConnectCheck(hr))
       ELSE /\ ~FAILED(hr) => FreeSvcs # {}
            /\ LET c == IF FAILED(hr) THEN Null ELSE Min(FreeSvcs)
               IN  /\ svcRef' = IF c = Null THEN svcRef ELSE [svcRef EXCEPT ![c] = 1]
                   /\ svcPath' = IF c = Null THEN svcPath ELSE [svcPath EXCEPT ![c] = op[t].path]
                   /\ handle' = [handle EXCEPT ![op[t].dst].svc = c]
                   /\ op' = [op EXCEPT ![t].pc = "blanket", ![t].hr = hr,
                                       ![t].tmp.svc = c,
                                       ![t].calls = Append(@, "IWbemLocator::ConnectServer")]
            /\ UNCHANGED <<locRef, svcSecured, coCount>>

\* A constructor whose CoSetProxyBlanket check was pasted from the
\* ConnectServer check and kept its label.
BlanketMislabelled(hr) ==
    IF FAILED(hr)
    THEN Exc("Exception", hr, "IWbemLocator::ConnectServer", "WmiService::connect")
    ELSE NoExc

\* A constructor that does not look at CoSetProxyBlanket's result.
BlanketUnchecked(hr) == NoExc

\* l.75-77: the check of CoSetProxyBlanket's result.
BlanketCheck(hr) ==
    IF FAILED(hr)
    THEN Exc("Exception", hr, "CoSetProxyBlanket", "WmiService::connect")
    ELSE NoExc

\* l.65-78: CoSetProxyBlanket on the new proxy; when the check passes the
\* constructor returns and the object exists.
CtorBlanket(t, hr) ==
    /\ op[t].kind = "construct"
    /\ op[t].pc = "blanket"
    /\ IF BlanketCheck(hr) # NoExc
       THEN CtorThrow(t, hr, "CoSetProxyBlanket", BlanketCheck(hr))
       ELSE /\ LET c == handle[op[t].dst].svc
               IN  svcSecured' = IF c = Null \/ FAILED(hr) THEN svcSecured
                                 ELSE [svcSecured EXCEPT ![c] = TRUE]
            /\ handle' = [handle EXCEPT ![op[t].dst].st = "live"]
            /\ op' = [op EXCEPT ![t].pc = "ret", ![t].hr = hr,
                                ![t].calls = Append(@, "CoSetProxyBlanket")]
            /\ UNCHANGED <<locRef, svcRef, svcPath, coCount>>

\* A destructor of a class that holds wbemServices in a raw pointer and
\* never releases it.
DestroyKeepsConnection(t, s) ==
    /\ op[t].pc = "idle"
    /\ handle[s].st = "live"
    /\ CanWrite(t, s)
    /\ locRef' = Release(locRef, handle[s].loc)
    /\ coCount' = CoUninit(coCount, t)
    /\ handle' = [handle EXCEPT ![s] = NullHandle]
    /\ op' = [op EXCEPT ![t] = [Idle EXCEPT !.kind = "destroy", !.pc = "ret", !.dst = s]]
    /\ UNCHANGED <<svcRef, svcSecured, svcPath>>

\* A destructor that releases wbemServices by hand, before the member's own
\* destructor releases it again.
DestroyTwice(t, s) ==
    /\ op[t].pc = "idle"
    /\ handle[s].st = "live"
    /\ CanWrite(t, s)
    /\ LET refs == Release(Release(svcRef, handle[s].svc), handle[s].svc)
       IN  /\ svcRef' = refs
           /\ svcSecured' = SecuredAfter(refs)
           /\ svcPath' = PathAfter(refs)
    /\ locRef' = Release(locRef, handle[s].loc)
    /\ coCount' = CoUninit(coCount, t)
    /\ handle' = [handle EXCEPT ![s] = NullHandle]
    /\ op' = [op EXCEPT ![t] = [Idle EXCEPT !.kind = "destroy", !.pc = "ret", !.dst = s]]

\* ----------------------------------------------------- ~WmiService, l.79-82
Destroy(t, s) ==
    /\ op[t].pc = "idle"
    /\ handle[s].st = "live"
    /\ CanWrite(t, s)
    /\ DestroyMembers(t, handle[s])
    /\ handle' = [handle EXCEPT ![s] = NullHandle]
    /\ op' = [op EXCEPT ![t] = [Idle EXCEPT !.kind = "destroy", !.pc = "ret", !.dst = s]]

\* ------------------------------------- WmiService(const WmiService&), l.83-86
\* A copy constructor that copies coinit instead of initializing a new one.
CopyConstructSharedCoInit(t, src, dst, hr) ==
    /\ op[t].pc = "idle"
    /\ handle[src].st = "live"
    /\ handle[dst].st = "none"
    /\ CanRead(t, src)
    /\ CanWrite(t, dst)
    /\ coCount[t] < MaxCoInit
    /\ handle' = [handle EXCEPT ![dst] = [st |-> "live", loc |-> handle[src].loc,
                                                          svc |-> handle[src].svc]]
    /\ locRef' = AddRef(locRef, handle[src].loc)
    /\ svcRef' = AddRef(svcRef, handle[src].svc)
    /\ op' = [op EXCEPT ![t] = [Idle EXCEPT
           !.kind = "copy", !.pc = "ret", !.dst = dst, !.src = src, !.hr = 0]]
    /\ UNCHANGED <<svcSecured, svcPath, coCount>>

\* A copy constructor that copies the locator and connects anew with it.
CopyConstructReconnects(t, src, dst, hr) ==
    /\ op[t].pc = "idle"
    /\ handle[src].st = "live"
    /\ handle[dst].st = "none"
    /\ CanRead(t, src)
    /\ CanWrite(t, dst)
    /\ coCount[t] < MaxCoInit
    /\ FreeSvcs # {}
    /\ LET c == Min(FreeSvcs)
       IN  /\ handle' = [handle EXCEPT ![dst] = [st |-> "live", loc |-> handle[src].loc,
                                                                svc |-> c]]
           /\ svcRef' = [svcRef EXCEPT ![c] = 1]
           /\ svcPath' = [svcPath EXCEPT ![c] = svcPath[handle[src].svc]]
           /\ svcSecured' = [svcSecured EXCEPT ![c] = TRUE]
    /\ locRef' = AddRef(locRef, handle[src].loc)
    /\ coCount' = CoInit(coCount, t)
    /\ op' = [op EXCEPT ![t] = [Idle EXCEPT
           !.kind = "copy", !.pc = "ret", !.dst = dst, !.src = src,
           !.calls = <<"CoInitializeEx", "IWbemLocator::ConnectServer",
                       "CoSetProxyBlanket">>, !.hr = 0]]

\* A copy constructor that leaves wbemLocator default-constructed.
CopyWithoutLocator(h) == [st |-> "live", loc |-> Null, svc |-> h.svc]

\* The member initialisers of the copy: both ComPtr members are copied.
CopyMembers(h) == [st |-> "live", loc |-> h.loc, svc |-> h.svc]

CopyConstruct(t, src, dst, hr) ==
    /\ op[t].pc = "idle"
    /\ handle[src].st = "live"
    /\ handle[dst].st = "none"
    /\ CanRead(t, src)
    /\ CanWrite(t, dst)
    /\ coCount[t] < MaxCoInit
    /\ IF CoInitCheck(hr) # NoExc
       THEN /\ op' = [op EXCEPT ![t] = [Idle EXCEPT
                   !.kind = "copy", !.pc = "thrown", !.dst = dst, !.src = src,
                   !.calls = <<"CoInitializeEx">>, !.hr = hr,
                   !.exc = CoInitCheck(hr)]]
            /\ UNCHANGED <<handle, locRef, svcRef, coCount>>
       ELSE /\ LET n == CopyMembers(handle[src])
               IN  /\ handle' = [handle EXCEPT ![dst] = n]
                   /\ locRef' = AddRef(locRef, n.loc)
                   /\ svcRef' = AddRef(svcRef, n.svc)
            /\ coCount' = CoInit(coCount, t)
            /\ op' = [op EXCEPT ![t] = [Idle EXCEPT
                   !.kind = "copy", !.pc = "ret", !.dst = dst, !.src = src,
                   !.calls = <<"CoInitializeEx">>, !.hr = hr]]
    /\ UNCHANGED <<svcSecured, svcPath>>

\* An assignment that overwrites the target's pointers with the source's and
\* never releases what the target held.
AssignLeaksOld(t, dst, src, hr) ==
    /\ op[t].pc = "idle"
    /\ handle[src].st = "live"
    /\ handle[dst].st = "live"
    /\ CanRead(t, src)
    /\ CanWrite(t, dst)
    /\ coCount[t] < MaxCoInit
    /\ handle' = [handle EXCEPT ![dst].loc = handle[src].loc, ![dst].svc = handle[src].svc]
    /\ locRef' = AddRef(locRef, handle[src].loc)
    /\ svcRef' = AddRef(svcRef, handle[src].svc)
    /\ op' = [op EXCEPT ![t] = [Idle EXCEPT
           !.kind = "assign", !.pc = "ret", !.dst = dst, !.src = src,
           !.tmp = handle[dst], !.calls = <<"CoInitializeEx">>, !.hr = 0]]
    /\ UNCHANGED <<svcSecured, svcPath, coCount>>

\* An assignment that releases what the target holds before it builds the
\* copy, instead of copy-and-swap.
AssignReleaseFirst(t, dst, src, hr) ==
    /\ op[t].pc = "idle"
    /\ handle[src].st = "live"
    /\ handle[dst].st = "live"
    /\ CanRead(t, src)
    /\ CanWrite(t, dst)
    /\ coCount[t] < MaxCoInit
    /\ LET old == handle[dst]
           new == IF CoInitCheck(hr) # NoExc THEN NullHandle ELSE CopyMembers(handle[src])
           locs == AddRef(Release(locRef, old.loc), new.loc)
           svcs == AddRef(Release(svcRef, old.svc), new.svc)
       IN  /\ handle' = [handle EXCEPT ![dst].loc = new.loc, ![dst].svc = new.svc]
           /\ locRef' = locs
           /\ svcRef' = svcs
           /\ svcSecured' = SecuredAfter(svcs)
           /\ svcPath' = PathAfter(svcs)
           /\ coCount' = coCount
           /\ op' = [op EXCEPT ![t] = [Idle EXCEPT
                  !.kind = "assign", !.dst = dst, !.src = src,
                  !.pc = IF CoInitCheck(hr) # NoExc THEN "thrown" ELSE "ret",
                  !.calls = <<"CoInitializeEx">>, !.hr = hr,
                  !.exc = CoInitCheck(hr)]]

\* ------------------------------------------------------ operator=, l.87-94
\* l.89 builds the temporary; l.91-92 swap the ComPtr members; the temporary,
\* now holding what the target held (tmp records it), is destroyed at l.94.
Assign(t, dst, src, hr) ==
    /\ op[t].pc = "idle"
    /\ handle[src].st = "live"
    /\ handle[dst].st = "live"
    /\ CanRead(t, src)
    /\ CanWrite(t, dst)
    /\ coCount[t] < MaxCoInit
    /\ IF CoInitCheck(hr) # NoExc
       THEN /\ op' = [op EXCEPT ![t] = [Idle EXCEPT
                   !.kind = "assign", !.pc = "thrown", !.dst = dst, !.src = src,
                   !.calls = <<"CoInitializeEx">>, !.hr = hr,
                   !.exc = CoInitCheck(hr)]]
            /\ UNCHANGED <<handle, locRef, svcRef, svcSecured, svcPath, coCount>>
       ELSE LET temp == CopyMembers(handle[src])
                old == handle[dst]
                locs == Release(AddRef(locRef, temp.loc), old.loc)
                svcs == Release(AddRef(svcRef, temp.svc), old.svc)
            IN  /\ handle' = [handle EXCEPT ![dst].loc = temp.loc, ![dst].svc = temp.svc]
                /\ locRef' = locs
                /\ svcRef' = svcs
                /\ svcSecured' = SecuredAfter(svcs)
                /\ svcPath' = PathAfter(svcs)
                /\ coCount' = CoUninit(CoInit(coCount, t), t)
                /\ op' = [op EXCEPT ![t] = [Idle EXCEPT
                       !.kind = "assign", !.pc = "ret", !.dst = dst, !.src = src,
                       !.tmp = old,
                       !.calls = <<"CoInitializeEx">>, !.hr = hr]]

\* An operator== that compares what the handles are connected to.
OpEqByPath(h, g) == svcPath[h.svc] = svcPath[g.svc]

\* An operator!= that lost its negation.
OpNeqNotNegated(h, g) == ComPtrEq(h.loc, g.loc) /\ ComPtrEq(h.svc, g.svc)

\* ------------------------------------------- operator== / operator!=, l.116-124
OpEq(h, g) == ComPtrEq(h.loc, g.loc) /\ ComPtrEq(h.svc, g.svc)

OpNeq(h, g) == ~OpEq(h, g)

Compare(t, a, b) ==
    /\ op[t].pc = "idle"
    /\ handle[a].st = "live"
    /\ handle[b].st = "live"
    /\ CanRead(t, a)
    /\ CanRead(t, b)
    /\ op' = [op EXCEPT ![t] = [Idle EXCEPT
           !.kind = "compare", !.pc = "ret", !.dst = a, !.src = b,
           !.eq = OpEq(handle[a], handle[b]), !.neq = OpNeq(handle[a], handle[b])]]
    /\ UNCHANGED <<handle, locRef, svcRef, svcSecured, svcPath, coCount>>

\* ------------------------------------------- operator-> / get(), l.107-133
\* The raw IWbemServices pointer is handed out; tmp.svc records it.
Get(t, s) ==
    /\ op[t].pc = "idle"
    /\ handle[s].st = "live"
    /\ CanRead(t, s)
    /\ op' = [op EXCEPT ![t] = [Idle EXCEPT
           !.kind = "get", !.pc = "ret", !.dst = s, !.tmp.svc = handle[s].svc]]
    /\ UNCHANGED <<handle, locRef, svcRef, svcSecured, svcPath, coCount>>

\* ---------------------------------------------------- delete_path, l.135-157
\* A delete_path that does not look at DeleteInstance's result.
SubmitUnchecked(hr) == NoExc

\* A delete_path that does not look at the status GetCallStatus gave.
StatusUnchecked(hr, status) ==
    IF FAILED(hr)
    THEN Exc("WmiException", hr, "IWbemCallResult::GetCallStatus", "WmiService::delete_path")
    ELSE NoExc

\* A delete_path that throws GetCallStatus's result where it means the status.
StatusThrowsHr(hr, status) ==
    IF FAILED(hr)
    THEN Exc("WmiException", hr, "IWbemCallResult::GetCallStatus", "WmiService::delete_path")
    ELSE IF FAILED(status)
    THEN Exc("WmiException", hr, "IWbemServices::DeleteInstance", "WmiService::delete_path")
    ELSE NoExc

\* l.144-146: the check of DeleteInstance's result.
SubmitCheck(hr) ==
    IF FAILED(hr)
    THEN Exc("WmiException", hr, "IWbemServices::DeleteInstance", "WmiService::delete_path")
    ELSE NoExc

\* l.151-156: the checks of GetCallStatus's result and of the status it gave.
StatusCheck(hr, status) ==
    IF FAILED(hr)
    THEN Exc("WmiException", hr, "IWbemCallResult::GetCallStatus", "WmiService::delete_path")
    ELSE IF FAILED(status)
    THEN Exc("WmiException", status, "IWbemServices::DeleteInstance", "WmiService::delete_path")
    ELSE NoExc

\* l.137-146: DeleteInstance with WBEM_FLAG_RETURN_IMMEDIATELY; the service
\* hands out an IWbemCallResult when it accepts the request.
Submitted(s, p, ctx, hr) ==
    LET o == [Idle EXCEPT !.kind = "delete", !.dst = s, !.path = p, !.ctx = ctx,
                          !.hr = hr, !.via = "context",
                          !.calls = <<"IWbemServices::DeleteInstance">>,
                          !.tok = IF FAILED(hr) THEN NoTok
                                  ELSE [st |-> "pending", hr |-> 0, status |-> 0]]
    IN  IF SubmitCheck(hr) # NoExc
        THEN [o EXCEPT !.pc = "thrown", !.exc = SubmitCheck(hr)]
        ELSE [o EXCEPT !.pc = "wait"]

DeleteSubmit(t, s, p, ctx, hr) ==
    /\ op[t].pc = "idle"
    /\ handle[s].st = "live"
    /\ CanRead(t, s)
    /\ op' = [op EXCEPT ![t] = Submitted(s, p, ctx, hr)]
    /\ UNCHANGED <<handle, locRef, svcRef, svcSecured, svcPath, coCount>>

\* The service finishes the request: from now on GetCallStatus gives hr and,
\* when hr is a success, status.
Reported(o, hr, status) ==
    [o EXCEPT !.tok = [st |-> "reported", hr |-> hr, status |-> status]]

ServiceReport(t, hr, status) ==
    /\ op[t].kind = "delete"
    /\ op[t].pc = "wait"
    /\ op[t].tok.st = "pending"
    /\ op' = [op EXCEPT ![t] = Reported(op[t], hr, status)]
    /\ UNCHANGED <<handle, locRef, svcRef, svcSecured, svcPath, coCount>>

\* A delete_path that waits with a timeout and gives up on a pending call.
DeleteAwaitTimeout(t) ==
    /\ op[t].kind = "delete"
    /\ op[t].pc = "wait"
    /\ op[t].tok.st \in {"pending", "reported"}
    /\ LET e == IF op[t].tok.st = "pending"
                THEN Exc("WmiException", -1, "IWbemCallResult::GetCallStatus",
                         "WmiService::delete_path")
                ELSE StatusCheck(op[t].tok.hr, op[t].tok.status)
       IN  op' = [op EXCEPT ![t].calls = Append(@, "IWbemCallResult::GetCallStatus"),
                            ![t].tok.st = "released",
                            ![t].exc = e,
                            ![t].pc = IF e # NoExc THEN "thrown" ELSE "ret"]
    /\ UNCHANGED <<handle, locRef, svcRef, svcSecured, svcPath, coCount>>

\* A delete_path that asks for the status again when GetCallStatus failed.
DeleteAwaitRetry(t) ==
    /\ op[t].kind = "delete"
    /\ op[t].pc = "wait"
    /\ op[t].tok.st = "reported"
    /\ LET e == StatusCheck(op[t].tok.hr, op[t].tok.status)
       IN  op' = IF FAILED(op[t].tok.hr) /\ Len(op[t].calls) < 3
                 THEN [op EXCEPT ![t].calls = Append(@, "IWbemCallResult::GetCallStatus")]
                 ELSE [op EXCEPT ![t].calls = Append(@, "IWbemCallResult::GetCallStatus"),
                                 ![t].tok.st = "released",
                                 ![t].exc = e,
                                 ![t].pc = IF e # NoExc THEN "thrown" ELSE "ret"]
    /\ UNCHANGED <<handle, locRef, svcRef, svcSecured, svcPath, coCount>>

\* A delete_path that keeps its IWbemCallResult in a raw pointer and never
\* releases it.
DeleteAwaitLeaks(t) ==
    /\ op[t].kind = "delete"
    /\ op[t].pc = "wait"
    /\ op[t].tok.st = "reported"
    /\ LET e == StatusCheck(op[t].tok.hr, op[t].tok.status)
       IN  op' = [op EXCEPT ![t].calls = Append(@, "IWbemCallResult::GetCallStatus"),
                            ![t].exc = e,
                            ![t].pc = IF e # NoExc THEN "thrown" ELSE "ret"]
    /\ UNCHANGED <<handle, locRef, svcRef, svcSecured, svcPath, coCount>>

\* l.148-157: the call after GetCallStatus returned and its results were
\* checked; the IWbemCallResult is released when delete_path is left.
Awaited(o) ==
    LET e == StatusCheck(o.tok.hr, o.tok.status)
    IN  [o EXCEPT !.calls = Append(@, "IWbemCallResult::GetCallStatus"),
                  !.tok.st = "released",
                  !.exc = e,
                  !.pc = IF e # NoExc THEN "thrown" ELSE "ret"]

\* GetCallStatus(WBEM_INFINITE) returns once the service has finished the
\* request.
DeleteAwait(t) ==
    /\ op[t].kind = "delete"
    /\ op[t].pc = "wait"
    /\ op[t].tok.st = "reported"
    /\ op' = [op EXCEPT ![t] = Awaited(op[t])]
    /\ UNCHANGED <<handle, locRef, svcRef, svcSecured, svcPath, coCount>>

\* A delete_path(LPCWSTR) that passes a context of its own making.
DeletePathOwnContext(t, s, p, hr) ==
    /\ op[t].pc = "idle"
    /\ handle[s].st = "live"
    /\ CanRead(t, s)
    /\ op' = [op EXCEPT ![t] = [Submitted(s, p, 1, hr) EXCEPT !.via = "default"]]
    /\ UNCHANGED <<handle, locRef, svcRef, svcSecured, svcPath, coCount>>

\* l.170: ntl::ComPtr<IWbemContext> null_context.
DefaultContext == Null

\* l.168-172: delete_path(LPCWSTR) calls delete_path(_objPath, null_context).
DeletePathDefault(t, s, p, hr) ==
    /\ op[t].pc = "idle"
    /\ handle[s].st = "live"
    /\ CanRead(t, s)
    /\ op' = [op EXCEPT ![t] = [Submitted(s, p, DefaultContext, hr) EXCEPT !.via = "default"]]
    /\ UNCHANGED <<handle, locRef, svcRef, svcSecured, svcPath, coCount>>

\* The member function returns, or its exception reaches the caller.
Return(t) ==
    /\ op[t].pc \in {"ret", "thrown"}
    /\ op' = [op EXCEPT ![t] = Idle]
    /\ UNCHANGED <<handle, locRef, svcRef, svcSecured, svcPath, coCount>>

\* One thread runs the member functions, one call after the other.
Next ==
    \/ \E t \in SeqThreads, s \in Slots, p \in NsPaths, hr \in HResults : CtorBegin(t, s, p, hr)
    \/ \E t \in SeqThreads, hr \in HResults : CtorCreateLocator(t, hr)
    \/ \E t \in SeqThreads, hr \in HResults : CtorConnect(t, hr)
    \/ \E t \in SeqThreads, hr \in HResults : CtorBlanket(t, hr)
    \/ \E t \in SeqThreads, s \in Slots : Destroy(t, s)
    \/ \E t \in SeqThreads, s, d \in Slots, hr \in HResults : CopyConstruct(t, s, d, hr)
    \/ \E t \in SeqThreads, d, s \in Slots, hr \in HResults : Assign(t, d, s, hr)
    \/ \E t \in SeqThreads, a, b \in Slots : Compare(t, a, b)
    \/ \E t \in SeqThreads, s \in Slots : Get(t, s)
    \/ \E t \in SeqThreads, s \in Slots, p \in ObjPaths, c \in Contexts, hr \in HResults :
            DeleteSubmit(t, s, p, c, hr)
    \/ \E t \in SeqThreads, s \in Slots, p \in ObjPaths, hr \in HResults :
            DeletePathDefault(t, s, p, hr)
    \/ \E t \in SeqThreads, hr \in HResults, st \in HResults : ServiceReport(t, hr, st)
    \/ \E t \in SeqThreads : DeleteAwait(t)
    \/ \E t \in SeqThreads : Return(t)

Spec == Init /\ [][Next]_vars

\* GetCallStatus(WBEM_INFINITE) returns once the call has completed, and the
\* thread that left a member function goes on.
SpecLive ==
    /\ Spec
    /\ \A t \in SeqThreads : WF_vars(DeleteAwait(t)) /\ WF_vars(Return(t))

\* The outcomes of the native calls in the concurrent runs: a failure, S_OK.
MTResults == {-1, 0}

\* The threads construct, copy, assign, destroy and call delete_path
\* concurrently; callers keep a writer of an object apart from its other users.
NextMT ==
    \/ \E t \in Threads, s \in Slots, hr \in MTResults : CtorBegin(t, s, "root\\cimv2", hr)
    \/ \E t \in Threads, hr \in MTResults : CtorCreateLocator(t, hr)
    \/ \E t \in Threads, hr \in MTResults : CtorConnect(t, hr)
    \/ \E t \in Threads, hr \in MTResults : CtorBlanket(t, hr)
    \/ \E t \in Threads, s \in Slots : Destroy(t, s)
    \/ \E t \in Threads, s, d \in Slots, hr \in MTResults : CopyConstruct(t, s, d, hr)
    \/ \E t \in Threads, d, s \in Slots, hr \in MTResults : Assign(t, d, s, hr)
    \/ \E t \in Threads, s \in Slots, p \in ObjPaths, hr \in MTResults :
            DeleteSubmit(t, s, p, Null, hr)
    \/ \E t \in Threads, hr \in MTResults, st \in MTResults : ServiceReport(t, hr, st)
    \/ \E t \in Threads : DeleteAwait(t)
    \/ \E t \in Threads : Return(t)

SpecMT == Init /\ [][NextMT]_vars

\* ================================================================ claims
LocOwners(l) == {s \in Slots : handle[s].st # "none" /\ handle[s].loc = l}

SvcOwners(c) == {s \in Slots : handle[s].st # "none" /\ handle[s].svc = c}

\* A valid locator, and a valid connection that carries the security context.
FullyConnected(h) ==
    /\ h.loc \in LocIds
    /\ locRef[h.loc] > 0
    /\ h.svc \in SvcIds
    /\ svcRef[h.svc] > 0
    /\ svcSecured[h.svc]

Running(kind) == {t \in Threads : op[t].kind = kind}

\* C1: every handle that exists holds a valid locator and a valid connection
\* on which CoSetProxyBlanket succeeded; a constructor that returned normally
\* left such a handle, and a constructor that threw left no handle at all.
C1_FullyConnectedOrNone ==
    /\ \A s \in Slots :
        /\ handle[s].st = "live" => FullyConnected(handle[s])
        /\ handle[s].st = "none" => handle[s] = NullHandle
    /\ \A t \in Running("construct") :
        /\ op[t].pc = "ret" => handle[op[t].dst].st = "live"
        /\ op[t].pc = "thrown" => handle[op[t].dst] = NullHandle
        /\ FAILED(op[t].hr) => op[t].pc = "thrown"

\* A constructor failed at the security step while another handle exists.
C1_Witness ==
    \E t \in Running("construct") :
        /\ op[t].pc = "thrown"
        /\ op[t].exc.what = "CoSetProxyBlanket"
        /\ \E s \in Slots : handle[s].st = "live"

\* C2: a connection is open exactly while a handle owns it: its reference
\* count is the number of handles that hold it, so it is never closed under an
\* owner and it is closed once the last owner is destroyed.
C2_OpenWhileOwned ==
    \A c \in SvcIds :
        /\ svcRef[c] = Cardinality(SvcOwners(c))
        /\ (svcRef[c] = 0) => (~svcSecured[c] /\ svcPath[c] = "")
        /\ \A s \in SvcOwners(c) : handle[s].st = "live" => svcSecured[c]

\* All copies but one were destroyed and the last one still has its connection.
C2_Witness ==
    \E t \in Running("destroy") : \E s \in Slots :
        /\ op[t].pc = "ret"
        /\ handle[s].st = "live"
        /\ svcRef[handle[s].svc] = 1
        /\ \A r \in Slots \ {s} : handle[r].st = "none"
        /\ FullyConnected(handle[s])

\* Thread t takes the step that runs member function `kind` to outcome pc.
Calls(t, kind, pc) == op[t].pc = "idle" /\ op'[t].kind = kind /\ op'[t].pc = pc

\* C3: an assignment whose temporary copy throws changes nothing: the
\* handles (target and source), the reference counts of locators and
\* connections and the thread's initialization count are what they were; the
\* only exception an assignment raises is the temporary's, the swap raises none.
C3_AssignStrongGuarantee ==
    [][\A t \in Threads :
        /\ Calls(t, "assign", "thrown") =>
            /\ handle' = handle
            /\ locRef' = locRef
            /\ svcRef' = svcRef
            /\ svcSecured' = svcSecured
            /\ svcPath' = svcPath
            /\ coCount' = coCount
            /\ FAILED(op'[t].hr)
            /\ op'[t].exc.what = "CoInitializeEx"
        /\ Calls(t, "assign", "ret") => ~FAILED(op'[t].hr)]_vars

\* An assignment threw while its target shared no resource with its source.
C3_Witness ==
    \E t \in Running("assign") :
        /\ op[t].pc = "thrown"
        /\ handle[op[t].dst].svc # handle[op[t].src].svc

\* The HRESULT of the first step of a finished delete_path that failed (0: none).
FirstFailure(o) ==
    IF FAILED(o.hr) THEN o.hr
    ELSE IF FAILED(o.tok.hr) THEN o.tok.hr
    ELSE IF FAILED(o.tok.status) THEN o.tok.status
    ELSE 0

\* C4: delete_path returns normally exactly when DeleteInstance succeeded,
\* GetCallStatus succeeded and the status is no failure; otherwise it throws an
\* error that carries the HRESULT of the first failing step.
C4_DeleteOutcome ==
    \A t \in Running("delete") :
        /\ op[t].pc \in {"wait", "ret", "thrown"}
        /\ op[t].pc = "wait" => (~FAILED(op[t].hr) /\ op[t].tok.st \in {"pending", "reported"})
        /\ op[t].pc = "ret" => (FirstFailure(op[t]) = 0 /\ op[t].exc = NoExc
                                  /\ op[t].tok.st = "released")
        /\ op[t].pc = "thrown" => (FAILED(FirstFailure(op[t]))
                                     /\ op[t].exc.type = "WmiException"
                                     /\ op[t].exc.code = FirstFailure(op[t]))

\* Submit and status retrieval succeeded (with S_FALSE) and the service
\* reported a failure status, which the caller received.
C4_Witness ==
    \E t \in Running("delete") :
        /\ op[t].pc = "thrown"
        /\ op[t].hr = 1
        /\ op[t].tok.hr = 1
        /\ op[t].exc.code = op[t].tok.status

\* The service reported a failure status for an accepted request.
FailedAtCompleted(o) ==
    /\ o.kind = "delete"
    /\ o.pc = "thrown"
    /\ ~FAILED(o.hr)
    /\ ~FAILED(o.tok.hr)
    /\ FAILED(o.tok.status)

\* The errors delete_path raises when DeleteInstance itself fails.
SubmitErrors == {SubmitCheck(hr) : hr \in {x \in HResults : FAILED(x)}}

\* The errors delete_path raises when GetCallStatus itself fails.
AwaitErrors == {StatusCheck(hr, st) : hr \in {x \in HResults : FAILED(x)}, st \in HResults}

C6_SubmitBeforeAwait ==
    \A t \in Running("delete") :
        /\ op[t].calls \in {<<"IWbemServices::DeleteInstance">>,
                            <<"IWbemServices::DeleteInstance", "IWbemCallResult::GetCallStatus">>}
        /\ Len(op[t].calls) = 2 => (~FAILED(op[t].hr) /\ op[t].tok.st = "released")
        /\ FAILED(op[t].hr) =>
            /\ op[t].pc = "thrown"
            /\ op[t].exc = Exc("WmiException", op[t].hr, "IWbemServices::DeleteInstance",
                               "WmiService::delete_path")
            /\ op[t].tok = NoTok
            /\ op[t].calls = <<"IWbemServices::DeleteInstance">>

\* DeleteInstance failed and the call ended there.
C6_Witness ==
    \E t \in Running("delete") : FAILED(op[t].hr) /\ op[t].pc = "thrown"

\* C7: the copy constructor adds one reference to the source's locator and one
\* to its connection, leaves the source handle as it was, and creates no
\* locator, connects to nothing and sets no proxy blanket.
C7_CopyAddsOneOwner ==
    [][\A t \in Threads :
        Calls(t, "copy", "ret") =>
            LET src == handle[op'[t].src]
            IN  /\ locRef' = [locRef EXCEPT ![src.loc] = @ + 1]
                /\ svcRef' = [svcRef EXCEPT ![src.svc] = @ + 1]
                /\ handle'[op'[t].src] = src
                /\ \A s \in Slots \ {op'[t].dst} : handle'[s] = handle[s]
                /\ svcSecured' = svcSecured
                /\ svcPath' = svcPath
                /\ op'[t].calls = <<"CoInitializeEx">>]_vars

\* A copy was made of a handle that was the only owner of its resources.
C7_Witness ==
    \E t \in Running("copy") :
        /\ op[t].pc = "ret"
        /\ locRef[handle[op[t].src].loc] = 2
        /\ svcRef[handle[op[t].src].svc] = 2

\* C8: h == g is true exactly when both handles hold the same locator and the
\* same connection, and h != g is its negation.
C8_EqualityIsIdentity ==
    \A t \in Running("compare") :
        LET h == handle[op[t].dst]
            g == handle[op[t].src]
        IN  /\ op[t].eq <=> (h.loc = g.loc /\ h.svc = g.svc)
            /\ op[t].neq <=> ~op[t].eq

\* Two different handle objects compared equal.
C8_Witness ==
    \E t \in Running("compare") : op[t].dst # op[t].src /\ op[t].eq /\ ~op[t].neq

\* C9: a copy equals the handle it was copied from, and two handles connected
\* one by one to the same namespace are not equal.
C9_CopyEqualsOriginal ==
    /\ \A t \in Running("copy") :
        op[t].pc = "ret" => OpEq(handle[op[t].dst], handle[op[t].src])
    /\ \A a, b \in Slots :
        (/\ handle[a].st = "live"
         /\ handle[b].st = "live"
         /\ handle[a].svc # handle[b].svc
         /\ svcPath[handle[a].svc] = svcPath[handle[b].svc]) =>
            ~OpEq(handle[a], handle[b])

\* A copy was made while a third handle is connected to the same namespace
\* through a connection of its own.
C9_Witness ==
    \E t \in Running("copy") : \E g \in Slots :
        /\ op[t].pc = "ret"
        /\ handle[g].st = "live"
        /\ handle[g].svc # handle[op[t].src].svc
        /\ svcPath[handle[g].svc] = svcPath[handle[op[t].src].svc]

\* C10: when createInstance or ConnectServer fails the constructor throws an
\* ntl::Exception with the HRESULT and the name of the failing call, the
\* locator it created is released and it holds no connection.
C10_ConnectFailure ==
    \A t \in Running("construct") :
        LET o == op[t]
            last == o.calls[Len(o.calls)]
        IN  /\ o.pc \in {"connect", "blanket"} => ~FAILED(o.hr)
            /\ (FAILED(o.hr) /\ last \in {"CoCreateInstance", "IWbemLocator::ConnectServer"}) =>
                /\ o.pc = "thrown"
                /\ o.exc.type = "Exception"
                /\ o.exc.code = o.hr
                /\ o.exc.what = last
                /\ handle[o.dst] = NullHandle
                /\ o.tmp.svc = Null
                /\ o.tmp.loc # Null => locRef[o.tmp.loc] = 0
                /\ \A l \in LocIds : locRef[l] = Cardinality(LocOwners(l))
                /\ \A c \in SvcIds : svcRef[c] = Cardinality(SvcOwners(c))

\* ConnectServer failed after the locator had been created.
C10_Witness ==
    \E t \in Running("construct") :
        /\ op[t].pc = "thrown"
        /\ op[t].exc.what = "IWbemLocator::ConnectServer"
        /\ op[t].tmp.loc # Null
        /\ locRef[op[t].tmp.loc] = 0

\* C11: when CoSetProxyBlanket fails after ConnectServer succeeded, the
\* constructor throws an ntl::Exception with that HRESULT that names
\* CoSetProxyBlanket, no handle exists, and the connection and the locator it
\* had obtained are released.
C11_SecurityFailure ==
    \A t \in Running("construct") :
        LET o == op[t]
        IN  (FAILED(o.hr) /\ o.calls[Len(o.calls)] = "CoSetProxyBlanket") =>
                /\ o.pc = "thrown"
                /\ o.exc = Exc("Exception", o.hr, "CoSetProxyBlanket", "WmiService::connect")
                /\ handle[o.dst] = NullHandle
                /\ o.tmp.loc # Null /\ locRef[o.tmp.loc] = 0
                /\ o.tmp.svc # Null /\ svcRef[o.tmp.svc] = 0
                /\ ~svcSecured[o.tmp.svc]
                /\ \A s \in Slots : handle[s].st = "live" =>
                        (handle[s].svc # o.tmp.svc /\ handle[s].loc # o.tmp.loc)

\* CoSetProxyBlanket failed on a connection that ConnectServer had opened.
C11_Witness ==
    \E t \in Running("construct") :
        /\ op[t].pc = "thrown"
        /\ op[t].calls = <<"CoInitializeEx", "CoCreateInstance",
                           "IWbemLocator::ConnectServer", "CoSetProxyBlanket">>
        /\ op[t].tmp.svc # Null
        /\ op[t].hr = -2

\* The handles of the calling thread: constructed or under construction.
Existing == {s \in Slots : handle[s].st # "none"}

\* C12: on a thread, every construction (connect, copy, the temporary of an
\* assignment) takes one reference on the thread's COM initialization and every
\* destruction drops one, so the balance is the number of handles and COM
\* is uninitialized only when no handle is left.
C12_InitBalance ==
    /\ \A t \in SeqThreads :
        /\ coCount[t] = Cardinality(Existing)
        /\ Existing # {} => coCount[t] > 0
    /\ \A t \in (Running("copy") \cup Running("assign") \cup Running("construct")) :
        /\ op[t].calls[1] = "CoInitializeEx"
        /\ FAILED(op[t].hr) /\ Len(op[t].calls) = 1 => op[t].pc = "thrown"

\* A copy was destroyed and the thread is still initialized for the others.
C12_Witness ==
    \E t \in Running("destroy") :
        /\ coCount[t] = 2
        /\ Cardinality(Existing) = 2
        /\ \E a, b \in Existing : a # b /\ handle[a].svc = handle[b].svc

\* C14: in its second phase delete_path stays blocked while the service has
\* not reported: it leaves the wait only by GetCallStatus returning what the
\* service reported, never on its own; and once the service has reported,
\* delete_path returns or throws. (Nothing makes the service report.)
C14_BlocksUntilReport ==
    /\ [][\A t \in Threads :
            (op[t].kind = "delete" /\ op[t].pc = "wait" /\ op'[t] # op[t]) =>
                IF op[t].tok.st = "pending"
                THEN op'[t].pc = "wait" /\ op'[t].tok.st = "reported"
                     /\ op'[t].calls = op[t].calls
                ELSE /\ op[t].tok.st = "reported"
                     /\ op'[t].pc \in {"ret", "thrown"}
                     /\ op'[t].tok.hr = op[t].tok.hr
                     /\ op'[t].tok.status = op[t].tok.status]_vars
    /\ \A t \in SeqThreads :
            (op[t].kind = "delete" /\ op[t].pc = "wait" /\ op[t].tok.st = "reported")
                ~> (op[t].kind = "delete" /\ op[t].pc \in {"ret", "thrown"})

\* The request is accepted and the caller is blocked on a service that has
\* not reported yet.
C14_Witness ==
    \E t \in Running("delete") : op[t].pc = "wait" /\ op[t].tok.st = "pending"

\* The number of calls of f in the call history cs.
Count(cs, f) == Cardinality({i \in 1..Len(cs) : cs[i] = f})

\* C15: delete_path retries nothing: it calls DeleteInstance exactly once and
\* GetCallStatus at most once, and a failure of either, or a failure status,
\* ends the call there with an exception.
C15_NoRetry ==
    \A t \in Running("delete") :
        LET o == op[t]
            got == Count(o.calls, "IWbemCallResult::GetCallStatus")
        IN  /\ Count(o.calls, "IWbemServices::DeleteInstance") = 1
            /\ got <= 1
            /\ Len(o.calls) = 1 + got
            /\ FAILED(o.hr) => (got = 0 /\ o.pc = "thrown")
            /\ got = 1 => o.pc \in {"ret", "thrown"}
            /\ (got = 1 /\ (FAILED(o.tok.hr) \/ FAILED(o.tok.status))) => o.pc = "thrown"
            /\ o.pc = "thrown" => o.exc # NoExc

\* GetCallStatus failed and the call ended after that one retrieval.
C15_Witness ==
    \E t \in Running("delete") :
        /\ op[t].pc = "thrown"
        /\ FAILED(op[t].tok.hr)
        /\ Len(op[t].calls) = 2

\* What delete_path(_objPath, _context) with a null context can have done for
\* object path p on handle s.
NullContextRuns(s, p) ==
    LET subs == {Submitted(s, p, Null, hr) : hr \in HResults}
        reps == {Reported(o, hr, st) : o \in {x \in subs : x.pc = "wait"},
                                        hr \in HResults, st \in HResults}
    IN  subs \cup reps \cup {Awaited(o) : o \in reps}

\* C16: delete_path(_objPath) is delete_path(_objPath, null context): it sends
\* the request with a null context, and whatever it does and returns or throws
\* is what the two-argument overload does for the same HRESULTs.
C16_DefaultIsNullContext ==
    \A t \in Running("delete") :
        op[t].via = "default" =>
            /\ op[t].ctx = Null
            /\ [op[t] EXCEPT !.via = "context"] \in NullContextRuns(op[t].dst, op[t].path)

\* The one-argument overload ran to a failure status.
C16_Witness ==
    \E t \in Running("delete") :
        /\ op[t].via = "default"
        /\ op[t].pc = "thrown"
        /\ op[t].tok.st = "released"
        /\ FAILED(op[t].tok.status)
        /\ ~FAILED(op[t].tok.hr)

\* What the constructor calls, in the order it calls them.
ConnectSequence ==
    <<"CoInitializeEx", "CoCreateInstance", "IWbemLocator::ConnectServer", "CoSetProxyBlanket">>

\* C18: a connection is made by one ConnectServer and secured by one
\* CoSetProxyBlanket, the call right after it, both inside the constructor and
\* before the handle exists for anyone; no other member function (copy,
\* assignment, access, comparison, delete_path, destructor) connects or sets
\* the blanket, and a connection's namespace and security stay as the
\* constructor left them until it is closed.
C18_ConnectAndSecureOnce ==
    /\ [](/\ \A t \in Running("construct") :
                op[t].calls = SubSeq(ConnectSequence, 1, Len(op[t].calls))
          /\ \A t \in Threads : op[t].kind # "construct" =>
                /\ Count(op[t].calls, "IWbemLocator::ConnectServer") = 0
                /\ Count(op[t].calls, "CoSetProxyBlanket") = 0
          /\ \A s \in Slots : handle[s].st = "live" =>
                /\ svcSecured[handle[s].svc]
                /\ svcPath[handle[s].svc] \in NsPaths)
    /\ [][\A c \in SvcIds :
            (svcPath'[c] # svcPath[c] \/ svcSecured'[c] # svcSecured[c]
                \/ (svcRef[c] = 0 /\ svcRef'[c] > 0)) =>
                \/ svcRef[c] > 0 /\ svcRef'[c] = 0
                \/ \E t \in Running("construct") :
                    /\ handle[op[t].dst].st = "ctor"
                    /\ op'[t].tmp.svc = c
                    /\ \/ /\ svcRef[c] = 0 /\ svcRef'[c] = 1
                          /\ svcPath'[c] = op[t].path
                          /\ svcSecured'[c] = FALSE
                          /\ op'[t].calls = SubSeq(ConnectSequence, 1, 3)
                       \/ /\ svcRef'[c] = svcRef[c] /\ svcPath'[c] = svcPath[c]
                          /\ svcSecured'[c]
                          /\ op'[t].calls = ConnectSequence]_vars

\* An assignment made its target share a connection that is still the one
\* its constructor connected and secured.
C18_Witness ==
    \E t \in Running("assign") :
        /\ op[t].pc = "ret"
        /\ op[t].dst # op[t].src
        /\ svcSecured[handle[op[t].dst].svc]
        /\ Cardinality(SvcOwners(handle[op[t].dst].svc)) = 3

\* The change of a reference count when `gained` takes a reference and `lost`
\* drops one.
Delta(p, gained, lost) ==
    (IF p = gained THEN 1 ELSE 0) - (IF p = lost THEN 1 ELSE 0)

\* C19: after a = b returned, a == b holds and b is what it was; every other
\* handle is what it was; the locator and the connection a held lose one
\* owner each, those of b gain one each; the thread's initialization count is
\* what it was; and a = a changes nothing at all.
C19_AssignResult ==
    [][\A t \in Threads :
        Calls(t, "assign", "ret") =>
            LET d == op'[t].dst
                s == op'[t].src
                old == handle[d]
                new == handle[s]
            IN  /\ OpEq(handle'[d], handle'[s])
                /\ ~OpNeq(handle'[d], handle'[s])
                /\ handle'[d] = [st |-> "live", loc |-> new.loc, svc |-> new.svc]
                /\ \A r \in Slots \ {d} : handle'[r] = handle[r]
                /\ \A l \in LocIds : locRef'[l] = locRef[l] + Delta(l, new.loc, old.loc)
                /\ \A c \in SvcIds : svcRef'[c] = svcRef[c] + Delta(c, new.svc, old.svc)
                /\ \A c \in SvcIds : svcRef'[c] > 0 =>
                        (svcSecured'[c] = svcSecured[c] /\ svcPath'[c] = svcPath[c])
                /\ coCount' = coCount
                /\ d = s => /\ handle' = handle
                            /\ locRef' = locRef
                            /\ svcRef' = svcRef
                            /\ svcSecured' = svcSecured
                            /\ svcPath' = svcPath]_vars

\* a = b returned where a had held another connection, which a alone owned
\* and which is closed now.
C19_Witness ==
    \E t \in Running("assign") :
        /\ op[t].pc = "ret"
        /\ op[t].dst # op[t].src
        /\ op[t].tmp.svc # handle[op[t].dst].svc
        /\ svcRef[op[t].tmp.svc] = 0
        /\ svcRef[handle[op[t].src].svc] = 2

\* C20: delete_path changes no handle, no reference count and no
\* initialization count on any path through it; when it is left, the
\* IWbemCallResult it got has been asked for its status once and released (or
\* there was none), nothing of the call is kept, and the handle is as
\* connected as before, also after an exception.
C20_DeleteLeavesHandle ==
    /\ [](\A t \in Running("delete") :
            LET o == op[t]
                got == Count(o.calls, "IWbemCallResult::GetCallStatus")
            IN  /\ handle[o.dst].st = "live"
                /\ FullyConnected(handle[o.dst])
                /\ o.pc \in {"ret", "thrown"} =>
                    /\ o.tok.st \in {"none", "released"}
                    /\ o.tok.st = "none" <=> FAILED(o.hr)
                    /\ o.tok.st = "released" <=> got = 1)
    /\ [][\A t \in Threads :
            (op'[t] # op[t] /\ (op[t].kind = "delete" \/ op'[t].kind = "delete")) =>
                /\ UNCHANGED <<handle, locRef, svcRef, svcSecured, svcPath, coCount>>
                /\ op[t].kind = "delete" /\ op'[t].kind # "delete" =>
                    (op[t].pc \in {"ret", "thrown"} /\ op'[t] = Idle)]_vars

\* delete_path threw on a handle that shares its connection with a copy.
C20_Witness ==
    \E t \in Running("delete") :
        /\ op[t].pc = "thrown"
        /\ op[t].tok.st = "released"
        /\ op[t].ctx # Null
        /\ svcRef[handle[op[t].dst].svc] = 2
        /\ locRef[handle[op[t].dst].loc] = 2

\* A thread is connecting or has a delete_path call under way.
UsesService(t) ==
    \/ op[t].kind = "construct" /\ op[t].pc \in {"create", "connect", "blanket", "ret"}
    \/ op[t].kind = "delete"

\* C13 as stated: whichever thread connects or calls delete_path through a
\* handle, also a handle another thread constructed, has COM initialized by
\* the class.
C13_Original ==
    \A t \in Threads : UsesService(t) => coCount[t] > 0

\* C13, amended: the class initializes COM on the thread that constructs a
\* handle, before it creates the locator and connects; delete_path
\* initializes nothing and leaves every thread's initialization as it is, so
\* a thread that calls it through a handle constructed elsewhere is
\* initialized only by its own doing.
C13_InitOnConstructingThread ==
    /\ [](/\ \A t \in Running("construct") :
                /\ op[t].calls[1] = "CoInitializeEx"
                /\ op[t].pc \in {"create", "connect", "blanket", "ret"} => coCount[t] > 0
          /\ \A t \in Running("delete") : Count(op[t].calls, "CoInitializeEx") = 0)
    /\ [][\A t \in Threads :
            (op'[t] # op[t] /\ (op[t].kind = "delete" \/ op'[t].kind = "delete")) =>
                coCount' = coCount]_vars

\* A thread that constructed no handle is inside delete_path, on a handle
\* another thread constructed, with COM not initialized on it.
C13_Witness ==
    \E t \in Running("delete") :
        /\ op[t].pc = "wait"
        /\ coCount[t] = 0
        /\ \E u \in Threads \ {t} : coCount[u] > 0

\* C17: threads copy and destroy handles that share a connection, in any
\* order: the connection's reference count is the number of handles that
\* hold it, never below zero, and the connection is closed in exactly one
\* step, the one that destroys its last holder.
C17_SharedBookkeeping ==
    /\ [](\A c \in SvcIds :
            /\ svcRef[c] >= 0
            /\ svcRef[c] = Cardinality(SvcOwners(c))
            /\ svcRef[c] = 0 => (~svcSecured[c] /\ svcPath[c] = ""))
    /\ [][\A c \in SvcIds :
            /\ svcRef'[c] - svcRef[c] \in {-1, 0, 1}
            /\ (svcRef[c] > 0 /\ svcRef'[c] = 0) =>
                /\ svcRef[c] = 1
                /\ \E s \in SvcOwners(c) : handle'[s].svc # c \/ handle'[s].st = "none"
                /\ \A s \in Slots : handle'[s].st # "none" => handle'[s].svc # c]_vars

\* One thread has destroyed a handle while the other has copied one, and the
\* connection they share is still open for what is left.
C17_Witness ==
    \E t, u \in Threads :
        /\ t # u
        /\ op[t].kind = "destroy"
        /\ op[u].kind = "copy" /\ op[u].pc = "ret"
        /\ svcRef[handle[op[u].dst].svc] = 2
        /\ handle[op[u].src].svc = handle[op[u].dst].svc

====
